---- MODULE Spec2Model ----
(***************************************************************************)
(* Model of src/app.py: a Streamlit voice chat.  One browser session owns  *)
(* st.session_state; the script is executed top to bottom on every         *)
(* (re)run.  A script run that finds a recording in the audio widget runs  *)
(* the turn pipeline: transcribe, append user, complete, append assistant, *)
(* synthesize, store audio, bump the widget key, st.rerun().               *)
(*                                                                         *)
(* The script only suspends inside the three external calls, so a script   *)
(* run is cut into steps at exactly those calls; everything the script     *)
(* does between two calls, the tail of the script included, is one action. *)
(***************************************************************************)
EXTENDS Integers, Sequences, FiniteSets, TLC

\* ------------------------------------------------------------------ bounds
\* Number of user-side triggers (record, clear, plain rerun) in a session.
MaxTriggers == 3
\* Number of distinct recordings the user makes in a session.
MaxClips == 2

\* ------------------------------------------------------- external inputs
\* Text returned by the speech-to-text service: a string, as a sequence of
\* characters.  Empty, whitespace-only, plain and padded texts.
Transcripts == { <<>>, <<" ">>, <<" ", " ">>, <<"h">>, <<" ", "o", " ">> }
\* Text returned by the completion service.
Replies == { <<"y">>, <<"n">> }
\* Length classes of the byte string b"".join(audio_generator).
AudioLens == {0, 1}

Clips == 1..MaxClips
\* audio_value when the widget holds no recording (None).
NoClip == 0

VARIABLES
    keys,                  \* keys present in st.session_state
    messages,              \* st.session_state.messages
    input_key,             \* st.session_state.input_key
    current_audio,         \* st.session_state.current_audio
    scroll_after_message,  \* st.session_state.scroll_after_message
    audio_input,           \* front-end state of the st.audio_input widget
    pc,                    \* position of the script run
    audio_value,           \* the script's local audio_value
    bot_text,              \* the script's local bot_text
    tmp_files,             \* temp files on disk (by pipeline run number)
    view,                  \* what the last script run rendered of the log
    played,                \* st.audio(..., autoplay=True) calls, in order
    run,                   \* record of the current / last pipeline run
    runs_of,               \* pipeline runs started per recording
    synthesized,           \* audio payloads returned by synthesis
    outcomes,              \* outcome of every finished pipeline run, in order
    nInit,                 \* times line 198 assigned session_state.messages
    nclips,                \* recordings made so far
    ntriggers,             \* user-side triggers so far
    secrets,               \* names for which get_secret returns a value
    startup_error          \* names listed by st.error at line 38, if shown

vars == << keys, messages, input_key, current_audio, scroll_after_message,
           audio_input, pc, audio_value, bot_text, tmp_files, view, played,
           run, runs_of, synthesized, outcomes, nInit, nclips, ntriggers,
           secrets, startup_error >>

\* ----------------------------------------------------------- pure helpers
\* lines 26-29: the names read with get_secret
SecretNames ==
    {"OPENAI_API_KEY", "ELEVENLABS_API_KEY", "OPENAI_BASE_URL", "GROQ_API_KEY"}

\* lines 14-23: whether the value get_secret resolves for key (st.secrets
\* first, then the environment, else None) is truthy.
get_secret(sec, key) == key \in sec

\* lines 33-35: the names tested with "if not ...", in order
ValidatedKeys == << "OPENAI_API_KEY", "ELEVENLABS_API_KEY", "GROQ_API_KEY" >>

RECURSIVE FirstMissing(_, _)
FirstMissing(sec, ks) ==
    IF ks = <<>> THEN <<>>
    ELSE IF ~get_secret(sec, Head(ks)) THEN << Head(ks) >>
    ELSE FirstMissing(sec, Tail(ks))

Missing_first(sec) == FirstMissing(sec, ValidatedKeys)

\* lines 32-35: missing
Missing(sec) ==
    LET absent(k) == ~get_secret(sec, k) IN SelectSeq(ValidatedKeys, absent)

IsWs(c) == c = " "

RECURSIVE LStrip(_)
LStrip(s) == IF s = <<>> THEN <<>>
             ELSE IF IsWs(Head(s)) THEN LStrip(Tail(s)) ELSE s

RECURSIVE RStrip(_)
RStrip(s) == IF s = <<>> THEN <<>>
             ELSE IF IsWs(s[Len(s)]) THEN RStrip(SubSeq(s, 1, Len(s) - 1)) ELSE s

\* str.strip()
Strip(s) == RStrip(LStrip(s))

\* bool(s) of a Python str / bytes
Truthy(s) == Len(s) > 0

Guard_nostrip(user_text) == Truthy(user_text)

\* line 667: if user_text and user_text.strip()
Guard(user_text) == Truthy(user_text) /\ Truthy(Strip(user_text))

\* line 83: the persona document, here with a name and one instruction.
persona == [name |-> "Dan", instructions |-> << "Be brief." >>]

\* line 83: the fact sheet, an ordered mapping given as key/value pairs.
facts == << >>

PersonaGet(p, k, default) == IF k \in DOMAIN p THEN p[k] ELSE default

\* line 99: chr(10).join(lines)
RECURSIVE JoinLines(_)
JoinLines(lines) ==
    IF lines = <<>> THEN <<>>
    ELSE IF Len(lines) = 1 THEN << lines[1] >>
    ELSE << lines[1], "\n" >> \o JoinLines(Tail(lines))

RECURSIVE DumpPairs(_)
DumpPairs(pairs) ==
    IF pairs = <<>> THEN <<>>
    ELSE IF Len(pairs) = 1 THEN << pairs[1][1], ": ", pairs[1][2] >>
    ELSE << pairs[1][1], ": ", pairs[1][2], ",\n" >> \o DumpPairs(Tail(pairs))

\* line 88: json.dumps(facts, indent=2)
json_dumps(f) == << "{" >> \o DumpPairs(f) \o << "}" >>

\* lines 89-197: the f-string, as the sequence of its interpolated values
\* between the fixed text of the template.
system_prompt(p, f) ==
    << "You are ", PersonaGet(p, "name", "Danish Akhtar"), ".",
       "**Identity & Behavior:**", PersonaGet(p, "role", "Voice Agent"),
       "Tone: ", PersonaGet(p, "tone", "Professional"),
       "Speaking Style: ", PersonaGet(p, "speaking_style", "Natural"),
       "Context: ", PersonaGet(p, "context", "Interview"),
       "**Instructions:**" >>
    \o JoinLines(PersonaGet(p, "instructions", <<>>))
    \o << "**Grounded Facts:**" >> \o json_dumps(f)
    \o << "**Response Guidelines:**" >>

Turn(role, content) == [role |-> role, content |-> content]

InitialLog == << Turn("system", system_prompt(persona, facts)) >>

AppendUser_dropped(log, text) == log

\* line 669
AppendUser(log, text) == Append(log, Turn("user", text))

AppendAssistant_replace(log, text) ==
    [log EXCEPT ![Len(log)] = Turn("assistant", text)]

\* line 682
AppendAssistant(log, text) == Append(log, Turn("assistant", text))

CompletionRequest_last(log) == << log[1], log[Len(log)] >>

\* line 677: messages=st.session_state.messages
CompletionRequest(log) == log

BumpKey_set(k) == 1

\* line 700: st.session_state.input_key += 1
BumpKey(k) == k + 1

NeedsInit_always(ks) == TRUE

\* line 86: if "messages" not in st.session_state
NeedsInit(ks) == "messages" \notin ks

RECURSIVE ScanBack(_, _)
ScanBack(history, i) ==
    IF i < 0 THEN -1
    ELSE IF history[i + 1].role = "assistant" THEN i
    ELSE ScanBack(history, i - 1)

RECURSIVE ScanForward(_, _)
ScanForward(history, i) ==
    IF i >= Len(history) THEN -1
    ELSE IF history[i + 1].role = "assistant" THEN i
    ELSE ScanForward(history, i + 1)

LastAssistantIdx_first(history) == ScanForward(history, 0)

\* lines 508-512 (0-based index, -1 when there is none)
LastAssistantIdx(history) == ScanBack(history, Len(history) - 1)

\* lines 505-542: the turns rendered and the one rendered with emphasis.
Render(history) ==
    IF Len(history) > 1
    THEN [shown  |-> { i \in 0..(Len(history) - 1) : history[i + 1].role # "system" },
          latest |-> LastAssistantIdx(history),
          emphasised |-> { i \in 0..(Len(history) - 1) :
                             /\ history[i + 1].role = "assistant"
                             /\ i = LastAssistantIdx(history) }]
    ELSE [shown |-> {}, latest |-> -1, emphasised |-> {}]

NoAudio == [id |-> 0, len |-> 0]

\* line 709: "current_audio" in st.session_state and st.session_state.current_audio
AutoplayDue(ks, ca) == "current_audio" \in ks /\ ca.len > 0

AfterAutoplay_kept(ks, ca) == ks

\* lines 711-714: keys left after the autoplay block
AfterAutoplay(ks, ca) == IF AutoplayDue(ks, ca) THEN ks \ {"current_audio"} ELSE ks

\* lines 717-786: keys left after the scroll block
AfterScroll(ks, log) == IF Len(log) > 1 THEN ks \ {"scroll_after_message"} ELSE ks

NoRun == [n |-> 0, clip |-> NoClip, pre_messages |-> <<>>, pre_key |-> 0,
          pre_keys |-> {}, pre_audio |-> NoAudio, pre_played |-> <<>>,
          calls |-> <<>>, llm_messages |-> <<>>, tts_text |-> <<>>,
          stt |-> "none", llm |-> "none", tts |-> "none",
          transcript |-> <<>>, reply |-> <<>>,
          error |-> "none", outcome |-> "none"]

\* ------------------------------------------------------------------- Init
\* A fresh session: empty session_state, the first script run about to start.
Init ==
    /\ keys = {}
    /\ messages = <<>>
    /\ input_key = 0
    /\ current_audio = NoAudio
    /\ scroll_after_message = FALSE
    /\ audio_input = [key |-> 0, value |-> NoClip]
    /\ pc = "start"
    /\ audio_value = NoClip
    /\ bot_text = <<>>
    /\ tmp_files = {}
    /\ view = [shown |-> {}, latest |-> -1, emphasised |-> {}]
    /\ played = <<>>
    /\ run = NoRun
    /\ runs_of = [c \in Clips |-> 0]
    /\ synthesized = {}
    /\ outcomes = <<>>
    /\ nInit = 0
    /\ nclips = 0
    /\ ntriggers = 0
    /\ secrets \in SUBSET SecretNames
    /\ startup_error = <<>>


\* ------------------------------------------------- the script, top to tail
\* Session state and widget value the script holds when it reaches line 636.
TopKeys == keys \cup {"messages", "input_key"}

\* lines 86-198
TopMessages == IF NeedsInit(keys) THEN InitialLog ELSE messages

\* lines 565-566
TopInputKey == IF "input_key" \in keys THEN input_key ELSE 0

\* line 569: a widget under a new key starts without a recording.
TopAudioValue ==
    IF audio_input.key = TopInputKey THEN audio_input.value ELSE NoClip

\* lines 25-39: a validated key is missing; show the list and st.stop().
ScriptHalt ==
    /\ pc = "start"
    /\ Missing(secrets) # <<>>
    /\ startup_error' = Missing(secrets)
    /\ pc' = "stopped"
    /\ UNCHANGED << secrets, keys, messages, input_key, current_audio,
                    scroll_after_message, audio_input, audio_value, bot_text,
                    tmp_files, view, played, run, runs_of, synthesized,
                    outcomes, nInit, nclips, ntriggers >>

\* lines 25-569: what every script run that passes the key validation does
\* before it looks at audio_value.
ScriptTop ==
    /\ pc = "start"
    /\ Missing(secrets) = <<>>
    /\ messages' = TopMessages
    /\ nInit' = nInit + (IF NeedsInit(keys) THEN 1 ELSE 0)
    /\ input_key' = TopInputKey
    /\ view' = Render(TopMessages)
    /\ audio_input' = [key |-> TopInputKey, value |-> TopAudioValue]

\* lines 708-786: autoplay block and scroll block, then the script ends.
ScriptTail(ks, log) ==
    /\ played' = IF AutoplayDue(ks, current_audio)
                 THEN Append(played, current_audio.id) ELSE played
    /\ keys' = AfterScroll(AfterAutoplay(ks, current_audio), log)
    /\ current_audio' = IF "current_audio" \in keys' THEN current_audio ELSE NoAudio
    /\ scroll_after_message' =
           IF "scroll_after_message" \in keys' THEN scroll_after_message ELSE FALSE
    /\ pc' = "idle"

\* The pipeline run ends with outcome o and error notice e.
Finish(r, o, e) ==
    /\ run' = [r EXCEPT !.outcome = o, !.error = e]
    /\ outcomes' = Append(outcomes, o)

\* line 636 false: a script run without a recording.
ScriptNoAudio ==
    /\ ScriptTop
    /\ TopAudioValue = NoClip
    /\ ScriptTail(TopKeys, TopMessages)
    /\ UNCHANGED << secrets, startup_error, audio_value, bot_text, tmp_files, run, runs_of, synthesized,
                    outcomes, nclips, ntriggers >>

\* lines 636-653: a recording is present; write it to a temp file and call
\* the transcription service.
ScriptBeginPipeline ==
    /\ ScriptTop
    /\ TopAudioValue # NoClip
    /\ keys' = TopKeys
    /\ audio_value' = TopAudioValue
    /\ tmp_files' = tmp_files \cup {run.n + 1}
    /\ run' = [n |-> run.n + 1, clip |-> TopAudioValue,
               pre_messages |-> TopMessages, pre_key |-> TopInputKey,
               pre_keys |-> TopKeys, pre_audio |-> current_audio,
               pre_played |-> played,
               calls |-> <<"stt">>, llm_messages |-> <<>>, tts_text |-> <<>>,
               stt |-> "called", llm |-> "none", tts |-> "none",
               transcript |-> <<>>, reply |-> <<>>,
               error |-> "none", outcome |-> "running"]
    /\ runs_of' = [runs_of EXCEPT ![TopAudioValue] = @ + 1]
    /\ pc' = "transcribing"
    /\ UNCHANGED << secrets, startup_error, current_audio, scroll_after_message, bot_text, played,
                    synthesized, outcomes, nclips, ntriggers >>

\* lines 656-681: transcription returned usable text; append the user turn
\* and call the completion service with the log.
TranscribeText(text) ==
    /\ pc = "transcribing"
    /\ Guard(text)
    /\ tmp_files' = tmp_files \ {run.n}
    /\ messages' = AppendUser(messages, text)
    /\ run' = [run EXCEPT !.stt = "ok", !.transcript = text,
                          !.calls = Append(@, "llm"), !.llm = "called",
                          !.llm_messages = CompletionRequest(messages')]
    /\ pc' = "completing"
    /\ UNCHANGED << secrets, startup_error, keys, input_key, current_audio, scroll_after_message,
                    audio_input, audio_value, bot_text, view, played, runs_of,
                    synthesized, outcomes, nInit, nclips, ntriggers >>

\* lines 656-667, 708-786: transcription returned empty or blank text.
TranscribeBlank(text) ==
    /\ pc = "transcribing"
    /\ ~Guard(text)
    /\ tmp_files' = tmp_files \ {run.n}
    /\ Finish([run EXCEPT !.stt = "ok", !.transcript = text], "empty", "none")
    /\ ScriptTail(keys, messages)
    /\ UNCHANGED << secrets, startup_error, messages, input_key, audio_input, audio_value, bot_text,
                    view, runs_of, synthesized, nInit, nclips, ntriggers >>

TranscribeFail_proceeds ==
    /\ pc = "transcribing"
    /\ messages' = AppendUser(messages, <<"e">>)
    /\ run' = [run EXCEPT !.stt = "threw", !.calls = Append(@, "llm"),
                          !.llm = "called", !.llm_messages = messages',
                          !.error = "audio"]
    /\ pc' = "completing"
    /\ UNCHANGED << secrets, startup_error, keys, input_key, current_audio, scroll_after_message,
                    audio_input, audio_value, bot_text, tmp_files, view, played,
                    runs_of, synthesized, outcomes, nInit, nclips, ntriggers >>

TranscribeFail_resets ==
    /\ pc = "transcribing"
    /\ Finish([run EXCEPT !.stt = "threw"], "transcription_failed", "audio")
    /\ played' = played
    /\ keys' = keys \ {"messages"}
    /\ pc' = "idle"
    /\ UNCHANGED << secrets, startup_error, messages, input_key, current_audio, scroll_after_message,
                    audio_input, audio_value, bot_text, tmp_files, view,
                    runs_of, synthesized, nInit, nclips, ntriggers >>

\* lines 663-667, 708-786: the transcription block threw; os.remove (line
\* 661) was skipped.
TranscribeFail ==
    /\ pc = "transcribing"
    /\ Finish([run EXCEPT !.stt = "threw"], "transcription_failed", "audio")
    /\ ScriptTail(keys, messages)
    /\ UNCHANGED << secrets, startup_error, messages, input_key, audio_input, audio_value, bot_text,
                    tmp_files, view, runs_of, synthesized, nInit, nclips,
                    ntriggers >>

CompleteOk_no_append(reply) ==
    /\ pc = "completing"
    /\ bot_text' = reply
    /\ keys' = keys \cup {"scroll_after_message"}
    /\ scroll_after_message' = TRUE
    /\ run' = [run EXCEPT !.llm = "ok", !.reply = reply,
                          !.calls = Append(@, "tts"), !.tts = "called",
                          !.tts_text = reply]
    /\ pc' = "synthesizing"
    /\ UNCHANGED << secrets, startup_error, messages, input_key, current_audio, audio_input, audio_value,
                    tmp_files, view, played, runs_of, synthesized, outcomes,
                    nInit, nclips, ntriggers >>

\* lines 681-691: the completion returned; append the assistant turn, set the
\* scroll flag and call the synthesis service.
CompleteOk(reply) ==
    /\ pc = "completing"
    /\ bot_text' = reply
    /\ messages' = AppendAssistant(messages, reply)
    /\ keys' = keys \cup {"scroll_after_message"}
    /\ scroll_after_message' = TRUE
    /\ run' = [run EXCEPT !.llm = "ok", !.reply = reply,
                          !.calls = Append(@, "tts"), !.tts = "called",
                          !.tts_text = reply]
    /\ pc' = "synthesizing"
    /\ UNCHANGED << secrets, startup_error, input_key, current_audio, audio_input, audio_value,
                    tmp_files, view, played, runs_of, synthesized, outcomes,
                    nInit, nclips, ntriggers >>

CompleteFail_rollback ==
    /\ pc = "completing"
    /\ messages' = SubSeq(messages, 1, Len(messages) - 1)
    /\ Finish([run EXCEPT !.llm = "threw"], "completion_failed", "error")
    /\ ScriptTail(keys, messages')
    /\ UNCHANGED << secrets, startup_error, input_key, audio_input, audio_value, bot_text,
                    tmp_files, view, runs_of, synthesized, nInit, nclips,
                    ntriggers >>

CompleteFail_retry ==
    /\ pc = "completing"
    /\ run' = [run EXCEPT !.llm = "threw", !.error = "error",
                          !.calls = Append(@, "llm")]
    /\ UNCHANGED << secrets, startup_error, keys, messages, input_key, current_audio,
                    scroll_after_message, audio_input, pc, audio_value,
                    bot_text, tmp_files, view, played, runs_of, synthesized,
                    outcomes, nInit, nclips, ntriggers >>

\* lines 675, 705-786: the completion call threw.
CompleteFail ==
    /\ pc = "completing"
    /\ Finish([run EXCEPT !.llm = "threw"], "completion_failed", "error")
    /\ ScriptTail(keys, messages)
    /\ UNCHANGED << secrets, startup_error, messages, input_key, audio_input, audio_value, bot_text,
                    tmp_files, view, runs_of, synthesized, nInit, nclips,
                    ntriggers >>

\* lines 694-703: synthesis returned; store the bytes, bump the widget key
\* and st.rerun(): the script stops here and starts again from the top.
SynthOk(len) ==
    /\ pc = "synthesizing"
    /\ current_audio' = [id |-> run.n, len |-> len]
    /\ keys' = keys \cup {"current_audio"}
    /\ input_key' = BumpKey(input_key)
    /\ synthesized' = synthesized \cup {[id |-> run.n, len |-> len]}
    /\ Finish([run EXCEPT !.tts = "ok"], "success", "none")
    /\ pc' = "start"
    /\ UNCHANGED << secrets, startup_error, messages, scroll_after_message, audio_input, audio_value,
                    bot_text, tmp_files, view, played, runs_of, nInit, nclips,
                    ntriggers >>

SynthFail_hangs ==
    /\ pc = "synthesizing"
    /\ pc' = "hung"
    /\ run' = [run EXCEPT !.tts = "threw"]
    /\ UNCHANGED << secrets, startup_error, keys, messages, input_key, current_audio,
                    scroll_after_message, audio_input, audio_value, bot_text,
                    tmp_files, view, played, runs_of, synthesized, outcomes,
                    nInit, nclips, ntriggers >>

\* lines 687-694, 705-786: the synthesis call (or draining its generator)
\* threw.
SynthFail ==
    /\ pc = "synthesizing"
    /\ Finish([run EXCEPT !.tts = "threw"], "synthesis_failed", "error")
    /\ ScriptTail(keys, messages)
    /\ UNCHANGED << secrets, startup_error, messages, input_key, audio_input, audio_value, bot_text,
                    tmp_files, view, runs_of, synthesized, nInit, nclips,
                    ntriggers >>

\* ---------------------------------------------------------- the user side
\* Streamlit reruns the script when the widget's value changes and when the
\* front end asks for a rerun (reconnect, rerun shortcut); it does so with
\* the widget values the front end holds.  Nothing is submitted while a
\* script run is in progress.
Trigger ==
    /\ pc = "idle"
    /\ ntriggers < MaxTriggers
    /\ ntriggers' = ntriggers + 1
    /\ pc' = "start"

\* line 569: the user records a clip in the widget.
Record ==
    /\ Trigger
    /\ nclips < MaxClips
    /\ nclips' = nclips + 1
    /\ audio_input' = [audio_input EXCEPT !.value = nclips + 1]
    /\ UNCHANGED << secrets, startup_error, keys, messages, input_key, current_audio,
                    scroll_after_message, audio_value, bot_text, tmp_files,
                    view, played, run, runs_of, synthesized, outcomes, nInit >>

\* line 569: the user deletes the recording held by the widget.
ClearRecording ==
    /\ Trigger
    /\ audio_input.value # NoClip
    /\ audio_input' = [audio_input EXCEPT !.value = NoClip]
    /\ UNCHANGED << secrets, startup_error, keys, messages, input_key, current_audio,
                    scroll_after_message, audio_value, bot_text, tmp_files,
                    view, played, run, runs_of, synthesized, outcomes, nInit,
                    nclips >>

\* The script is rerun with the widget values unchanged.
Rerun ==
    /\ Trigger
    /\ UNCHANGED << secrets, startup_error, keys, messages, input_key, current_audio,
                    scroll_after_message, audio_input, audio_value, bot_text,
                    tmp_files, view, played, run, runs_of, synthesized,
                    outcomes, nInit, nclips >>

Next ==
    \/ ScriptHalt
    \/ Record
    \/ ClearRecording
    \/ Rerun
    \/ ScriptNoAudio
    \/ ScriptBeginPipeline
    \/ \E text \in Transcripts : TranscribeText(text)
    \/ \E text \in Transcripts : TranscribeBlank(text)
    \/ TranscribeFail
    \/ \E reply \in Replies : CompleteOk(reply)
    \/ CompleteFail
    \/ \E len \in AudioLens : SynthOk(len)
    \/ SynthFail

Spec == Init /\ [][Next]_vars

\* The three external calls: each started call returns a result or throws.
TranscriptionReturns ==
    \/ \E text \in Transcripts : TranscribeText(text)
    \/ \E text \in Transcripts : TranscribeBlank(text)
    \/ TranscribeFail

CompletionReturns ==
    \/ \E reply \in Replies : CompleteOk(reply)
    \/ CompleteFail

SynthesisReturns ==
    \/ \E len \in AudioLens : SynthOk(len)
    \/ SynthFail

\* The blocking calls at lines 649, 675 and 687-694 do not block forever.
FairSpec ==
    /\ Spec
    /\ WF_vars(TranscriptionReturns)
    /\ WF_vars(CompletionReturns)
    /\ WF_vars(SynthesisReturns)

\* ============================================================ properties
IsPrefix(s, t) == Len(s) <= Len(t) /\ SubSeq(t, 1, Len(s)) = s

IsBlank(s) == \A i \in 1..Len(s) : IsWs(s[i])

Count(seq, x) == Cardinality({ i \in 1..Len(seq) : seq[i] = x })

\* The states of the pipeline's state machine (spec 4.4).
PipelineState ==
    CASE pc = "transcribing" -> "Transcribing"
      [] pc = "completing"   -> "AwaitingCompletion"
      [] pc = "synthesizing" -> "Synthesizing"
      [] OTHER               -> "Idle"

\* The stored audio is what it was when the pipeline run began.
AudioAsBefore ==
    /\ ("current_audio" \in keys) = ("current_audio" \in run.pre_keys)
    /\ current_audio = run.pre_audio

\* system first, then user, assistant, user, assistant, ...
StrictAlternation(log) ==
    /\ Len(log) >= 1
    /\ log[1].role = "system"
    /\ \A i \in 2..Len(log) :
           log[i].role = IF i % 2 = 0 THEN "user" ELSE "assistant"

\* system first, then user and assistant turns, each assistant turn directly
\* after a user turn.
UserBeforeAssistant(log) ==
    /\ Len(log) >= 1
    /\ log[1].role = "system"
    /\ \A i \in 2..Len(log) :
           /\ log[i].role \in {"user", "assistant"}
           /\ log[i].role = "assistant" => log[i - 1].role = "user"

\* C1 as claimed: in every session state the log is a system turn followed by
\* strictly alternating user, assistant, user, assistant, ... turns, and no
\* step makes the log shorter.  (Fails: a run whose completion throws leaves
\* a user turn that the next run's user turn follows.)
C1_StrictAlternation ==
    [][ /\ "messages" \in keys' => StrictAlternation(messages')
        /\ Len(messages') >= Len(messages) ]_vars

\* C1 amended: in every session state the log is a system turn followed by
\* user and assistant turns in which every assistant turn directly follows a
\* user turn (user turns may be adjacent), and no step makes the log shorter.
C1_UserBeforeAssistant ==
    [][ /\ "messages" \in keys' => UserBeforeAssistant(messages')
        /\ Len(messages') >= Len(messages) ]_vars

\* C1 witness: a log with two adjacent user turns followed by a reply.
C1_Witness ==
    /\ Len(messages) >= 4
    /\ messages[2].role = "user"
    /\ messages[3].role = "user"
    /\ messages[4].role = "assistant"

\* C2: a recording triggers at most one pipeline run: once a run has consumed
\* it, no later script rerun starts the pipeline on it again.  (Fails: the
\* widget key is only bumped on full success, so after any other outcome a
\* rerun finds the same recording and runs the pipeline again.)
C2_ClipConsumedOnce == \A c \in Clips : runs_of[c] <= 1

\* C3: when the completion call throws, the log is the log from before the
\* run plus one user turn with the transcribed text; synthesis was not
\* requested and the stored audio is untouched.
C3_CompletionFailure ==
    run.llm = "threw" =>
        /\ messages = Append(run.pre_messages, Turn("user", run.transcript))
        /\ run.calls = <<"stt", "llm">>
        /\ AudioAsBefore
        /\ \A a \in synthesized : a.id # run.n

\* C3 witness: a completion failure in a session that already has a reply.
C3_Witness ==
    /\ run.llm = "threw"
    /\ Len(run.pre_messages) >= 3
    /\ pc = "idle"

\* C4: when the synthesis call throws, the log is the log from before the run
\* plus a user turn and an assistant turn; no audio is stored or played.
C4_SynthesisFailure ==
    run.tts = "threw" =>
        /\ messages = run.pre_messages
                        \o << Turn("user", run.transcript),
                              Turn("assistant", run.reply) >>
        /\ AudioAsBefore
        /\ played = run.pre_played
        /\ \A a \in synthesized : a.id # run.n

\* C4 witness: a synthesis failure after an earlier successful run.
C4_Witness ==
    /\ run.tts = "threw"
    /\ Len(run.pre_messages) >= 3
    /\ pc = "idle"

\* C5: when the transcription call throws, the log is exactly the log from
\* before the run, the error notice is shown, neither completion nor
\* synthesis is called and the pipeline is back in Idle.
C5_TranscriptionFailure ==
    run.stt = "threw" =>
        /\ messages = run.pre_messages
        /\ run.error = "audio"
        /\ run.calls = <<"stt">>
        /\ PipelineState = "Idle"

\* C5 witness: a transcription failure in a session with earlier turns.
C5_Witness ==
    /\ run.stt = "threw"
    /\ Len(run.pre_messages) >= 2
    /\ pc = "idle"

\* C6: when transcription returns empty or whitespace-only text, the run
\* leaves the log, the stored audio and the widget key as they were, calls
\* neither completion nor synthesis and shows no error.
C6_BlankTranscription ==
    (run.stt = "ok" /\ IsBlank(run.transcript)) =>
        /\ messages = run.pre_messages
        /\ AudioAsBefore
        /\ input_key = run.pre_key
        /\ run.calls = <<"stt">>
        /\ run.error = "none"

\* C6 witness: a whitespace-only transcription in a session with turns.
C6_Witness ==
    /\ run.stt = "ok"
    /\ run.transcript = <<" ", " ">>
    /\ Len(run.pre_messages) >= 2
    /\ pc = "idle"

AllOk(r) == r.stt = "ok" /\ r.llm = "ok" /\ r.tts = "ok"

\* C7: a run in which all three calls succeed grows the log by exactly a user
\* turn with the transcribed text and an assistant turn with the completion
\* text; when every run of the session so far was such a run, the log has
\* length 1 + 2N after N runs.
C7_SuccessGrowsByTwo ==
    /\ AllOk(run) =>
           messages = run.pre_messages
                        \o << Turn("user", run.transcript),
                              Turn("assistant", run.reply) >>
    /\ ( /\ "messages" \in keys
         /\ run.outcome # "running"
         /\ \A i \in 1..Len(outcomes) : outcomes[i] = "success" )
       => Len(messages) = 1 + 2 * Len(outcomes)

\* C7 witness: two successful runs and nothing else, log of length 5.
C7_Witness ==
    /\ AllOk(run)
    /\ Len(outcomes) = 2
    /\ \A i \in 1..Len(outcomes) : outcomes[i] = "success"
    /\ Len(messages) = 5
    /\ pc = "idle"

\* C8: the log is initialised once per session: the step that creates it sets
\* it to a single system turn, the first script run (when the key validation
\* lets it start) leaves it present, and once
\* present no step initialises it again, replaces its first turn or
\* shortens it.
C8_InitialisedOnce ==
    [][ /\ ("messages" \notin keys /\ "messages" \in keys') =>
               /\ Len(messages') = 1
               /\ messages'[1].role = "system"
               /\ nInit' = 1
        /\ (pc = "start" /\ ntriggers = 0 /\ pc' # "stopped")
               => "messages" \in keys'
        /\ "messages" \in keys =>
               /\ "messages" \in keys'
               /\ nInit' = nInit
               /\ Len(messages') >= Len(messages)
               /\ messages'[1] = messages[1] ]_vars

\* C8 witness: several script runs later the log has grown and was
\* initialised once.
C8_Witness ==
    /\ nInit = 1
    /\ ntriggers >= 2
    /\ Len(messages) >= 3
    /\ pc = "idle"

\* C9: the log is append-only: every step leaves the old log as a prefix of
\* the new one.
C9_AppendOnly == [][ IsPrefix(messages, messages') ]_vars

\* C9 witness: a log that grew through a failed and a successful run.
C9_Witness ==
    /\ Len(outcomes) >= 2
    /\ \E i \in 1..Len(outcomes) : outcomes[i] = "completion_failed"
    /\ \E i \in 1..Len(outcomes) : outcomes[i] = "success"
    /\ Len(messages) >= 4

\* The payload is stored and the rerun that plays it has not run yet.
AwaitingPlayback(a) ==
    /\ pc = "start"
    /\ "current_audio" \in keys
    /\ current_audio = a

\* C10 as claimed: every payload returned by synthesis is played exactly once,
\* in the rerun that follows, and is then removed from session state.
\* (Fails for an empty payload: line 709 skips it, so it is neither played
\* nor deleted.)
C10_PlayedOnce ==
    \A a \in synthesized :
        IF AwaitingPlayback(a)
        THEN Count(played, a.id) = 0
        ELSE /\ Count(played, a.id) = 1
             /\ ~("current_audio" \in keys /\ current_audio = a)

\* C10 amended: every non-empty payload returned by synthesis is played
\* exactly once, in the rerun that follows, and is then removed from session
\* state; it is never replayed.
C10_NonEmptyPlayedOnce ==
    \A a \in synthesized :
        a.len > 0 =>
            IF AwaitingPlayback(a)
            THEN Count(played, a.id) = 0
            ELSE /\ Count(played, a.id) = 1
                 /\ ~("current_audio" \in keys /\ current_audio = a)

\* C10 witness: a payload was played and a later pipeline run has finished.
C10_Witness ==
    /\ \E a \in synthesized : a.len > 0 /\ Count(played, a.id) = 1 /\ a.id < run.n
    /\ run.outcome # "running"
    /\ pc = "idle"

\* The pipeline is in one of its three working states.
InFlight == pc \notin {"idle", "start", "stopped"}

\* C11: every pipeline invocation returns to Idle, whatever each external call
\* does, provided each call returns or fails.
C11_ReturnsToIdle == InFlight ~> ~InFlight

\* C11 witness: runs that failed at each of the three stages all ended Idle.
C11_Witness ==
    /\ ~InFlight
    /\ \E i \in 1..Len(outcomes) : outcomes[i] = "transcription_failed"
    /\ \E i \in 1..Len(outcomes) : outcomes[i] = "completion_failed"
    /\ \E i \in 1..Len(outcomes) : outcomes[i] = "synthesis_failed"

Failures == {"transcription_failed", "completion_failed", "synthesis_failed"}

HadFailure == \E i \in 1..Len(outcomes) : outcomes[i] \in Failures

\* C12: after a failed run the session goes on: a new recording starts a
\* fresh pipeline run on the log as the failure left it, and when that run's
\* three calls succeed it appends its user and assistant turn to that log,
\* stores its audio, bumps the widget key and reruns, as after no failure.
C12_ContinuableAfterFailure ==
    [][ /\ ( /\ HadFailure
             /\ pc = "start"
             /\ audio_input.value # NoClip
             /\ runs_of[audio_input.value] = 0 )
           => /\ pc' = "transcribing"
              /\ run'.clip = audio_input.value
              /\ run'.pre_messages = messages
              /\ messages' = messages
        /\ ( HadFailure /\ pc = "synthesizing" /\ run'.tts = "ok" )
           => /\ messages' = run.pre_messages
                               \o << Turn("user", run.transcript),
                                     Turn("assistant", run.reply) >>
              /\ "current_audio" \in keys'
              /\ current_audio'.id = run.n
              /\ current_audio' \in synthesized'
              /\ input_key' = run.pre_key + 1
              /\ pc' = "start" ]_vars

\* C12 witness: a failed run, then a run on a new recording that succeeded
\* and whose audio was played.
C12_Witness ==
    /\ HadFailure
    /\ AllOk(run)
    /\ runs_of[run.clip] = 1
    /\ run.clip = 2
    /\ Count(played, run.n) = 1
    /\ pc = "idle"

\* C13: once the pipeline has left the transcription step no temp file of
\* the run is left on disk, whether transcription returned or threw.
\* (Fails: os.remove at line 661 is inside the try and is skipped when the
\* call throws.)
C13_TempFileReleased == pc # "transcribing" => tmp_files = {}

\* C14: after a synthesis failure the script run has rendered the assistant
\* turn it appended, as the emphasised latest reply, and played no audio.
\* (Fails: the log is rendered at lines 505-542, before the pipeline, and
\* st.rerun() is only reached on success.)
C14_ReplyShownOnSynthesisFailure ==
    (run.tts = "threw" /\ pc = "idle") =>
        /\ (Len(messages) - 1) \in view.shown
        /\ view.latest = Len(messages) - 1
        /\ played = run.pre_played

Last(seq) == seq[Len(seq)]

NumAssistant(log) == Cardinality({ i \in 1..Len(log) : log[i].role = "assistant" })

\* C15: every completion request carries the whole log as it stands when the
\* request is made: the system turn first, every turn appended before the
\* run in order, and last the user turn this run appended.
C15_CompletionGetsFullLog ==
    run.llm # "none" =>
        /\ run.llm_messages
             = Append(run.pre_messages, Turn("user", run.transcript))
        /\ run.llm_messages[1].role = "system"
        /\ Last(run.llm_messages) = Turn("user", run.transcript)
        /\ pc = "completing" => run.llm_messages = messages

\* C15 witness: a completion request made on a log with earlier turns.
C15_Witness ==
    /\ pc = "completing"
    /\ Len(run.llm_messages) >= 4

\* C16: within one pipeline run each service is called at most once, and
\* once a call has thrown no further call is made in that run.
C16_NoRetries ==
    /\ \A svc \in {"stt", "llm", "tts"} : Count(run.calls, svc) <= 1
    /\ run.stt = "threw" => run.calls = <<"stt">>
    /\ run.llm = "threw" => run.calls = <<"stt", "llm">>
    /\ run.tts = "threw" => run.calls = <<"stt", "llm", "tts">>

\* C16 witness: a second run of the session ended by a completion failure
\* after two calls.
C16_Witness ==
    /\ run.llm = "threw"
    /\ run.calls = <<"stt", "llm">>
    /\ run.n >= 2
    /\ pc = "idle"

\* C19: the steps of a run come in the order transcribe, append user,
\* complete, append assistant, synthesize: the calls made are a prefix of
\* transcription, completion, synthesis; completion is only requested after
\* a usable transcription, with the user turn in the log; synthesis is only
\* requested after a successful completion, with the assistant turn in the
\* log and with its text.
C19_StepOrder ==
    /\ IsPrefix(run.calls, <<"stt", "llm", "tts">>)
    /\ run.llm # "none" =>
           /\ run.stt = "ok"
           /\ ~IsBlank(run.transcript)
           /\ IsPrefix(Append(run.pre_messages, Turn("user", run.transcript)),
                       messages)
           /\ Last(run.llm_messages).role = "user"
    /\ run.tts # "none" =>
           /\ run.llm = "ok"
           /\ IsPrefix(run.pre_messages
                         \o << Turn("user", run.transcript),
                               Turn("assistant", run.reply) >>,
                       messages)
           /\ run.tts_text = run.reply

\* C19 witness: the synthesis call of a later run is in flight.
C19_Witness ==
    /\ pc = "synthesizing"
    /\ run.calls = <<"stt", "llm", "tts">>
    /\ run.n >= 2

\* The widget key is 0 plus one per run whose three calls succeeded.
KeyCountsSuccesses ==
    /\ input_key = Count(outcomes, "success")
    /\ input_key <= NumAssistant(messages)
    /\ run.outcome \in (Failures \cup {"empty"}) => input_key = run.pre_key
    /\ AllOk(run) => input_key = run.pre_key + 1

\* C20: the widget key starts at 0, never decreases, goes up by exactly 1 in
\* exactly the runs whose three calls succeed and is unchanged by every other
\* run, so it never exceeds the number of assistant turns.
C20_InputKey ==
    [][ /\ KeyCountsSuccesses'
        /\ input_key' >= input_key
        /\ input_key' = input_key + (IF run'.tts = "ok" /\ run.tts # "ok"
                                     THEN 1 ELSE 0) ]_vars

\* C20 witness: a failed run and two successful runs, key 2.
C20_Witness ==
    /\ input_key = 2
    /\ HadFailure
    /\ pc = "idle"

Range(seq) == { seq[i] : i \in 1..Len(seq) }

\* The script has got past the key validation at least once.
Started == nInit > 0

\* The names the error message of a halted startup lists are exactly the
\* absent names among ks, each once.
HaltsExactlyOn(ks) ==
    /\ pc # "start" => (pc = "stopped" <=> ks \ secrets # {})
    /\ pc = "stopped" =>
           /\ Range(startup_error) = ks \ secrets
           /\ Len(startup_error) = Cardinality(ks \ secrets)
           /\ ~Started
    /\ Started => ks \subseteq secrets

\* C17 as claimed: startup halts exactly when one of the four secrets is
\* absent and the message lists exactly the absent ones.  (Fails:
\* OPENAI_BASE_URL is read but not validated.)
C17_FourSecrets == HaltsExactlyOn(SecretNames)

\* C17 amended: startup halts exactly when one of the three API keys
\* OPENAI_API_KEY, ELEVENLABS_API_KEY, GROQ_API_KEY is absent, and the message
\* lists exactly the absent ones of these three; OPENAI_BASE_URL may be
\* absent.
C17_ThreeApiKeys == HaltsExactlyOn(Range(ValidatedKeys))

\* C17 witness: a startup halted with two keys listed, base URL absent too.
C17_Witness ==
    /\ pc = "stopped"
    /\ startup_error = << "OPENAI_API_KEY", "GROQ_API_KEY" >>
    /\ "OPENAI_BASE_URL" \notin secrets

\* r is the greatest 0-based index of an assistant turn of log, or -1 when
\* log has none.
IsLastAssistant(r, log) ==
    \/ /\ r = -1
       /\ \A i \in 1..Len(log) : log[i].role # "assistant"
    \/ /\ r \in 0..(Len(log) - 1)
       /\ log[r + 1].role = "assistant"
       /\ \A i \in (r + 2)..Len(log) : log[i].role # "assistant"

\* A script run gets past the key validation and renders the conversation.
Renders == pc = "start" /\ pc' \notin {"start", "stopped"}

\* C21: every time the conversation is rendered, the index computed for the
\* latest reply is the greatest index of an assistant turn of the log, or -1
\* when there is none; at most one turn is rendered with emphasis and it is
\* that one, also when user turns follow it; rendering leaves an existing
\* log as it is.
C21_LastAssistantIndex ==
    [][ Renders =>
          /\ IsLastAssistant(view'.latest, messages')
          /\ Cardinality(view'.emphasised) <= 1
          /\ view'.emphasised = (IF view'.latest = -1 THEN {}
                                 ELSE {view'.latest})
          /\ view'.emphasised \subseteq view'.shown
          /\ "messages" \in keys => messages' = messages ]_vars

\* C21 witness: a log whose reply is followed by a user turn was rendered,
\* the reply with emphasis.
C21_Witness ==
    /\ Len(messages) = 4
    /\ messages[3].role = "assistant"
    /\ messages[4].role = "user"
    /\ view.emphasised = {2}
    /\ 3 \in view.shown

NumRole(log, role) == Cardinality({ i \in 1..Len(log) : log[i].role = role })

\* C22: under every outcome the log has exactly one system turn, at index 0;
\* every assistant turn comes directly after a user turn, so there are never
\* more assistant turns than user turns; and a completion request ends with
\* a user turn.
C22_Structure ==
    "messages" \in keys =>
        /\ NumRole(messages, "system") = 1
        /\ messages[1].role = "system"
        /\ \A i \in 1..Len(messages) :
               messages[i].role = "assistant" =>
                   i > 1 /\ messages[i - 1].role = "user"
        /\ NumRole(messages, "assistant") <= NumRole(messages, "user")
        /\ run.llm # "none" => Last(run.llm_messages).role = "user"

\* C22 witness: a completion request on a log that holds user turns left
\* without a reply by failed runs.
C22_Witness ==
    /\ pc = "completing"
    /\ HadFailure
    /\ NumRole(messages, "user") >= NumRole(messages, "assistant") + 2

====
